---- MODULE Spec2Model ----
(***************************************************************************)
(* Streaming audio segmentation around whisper.cpp:                        *)
(*   - Whisper.pcm16sto32f / Whisper.prepare   (sample conversion)         *)
(*   - Whisper.vad_simple / Whisper.highPassFilter (energy VAD)            *)
(*   - Whisper.transcribe with the session window pcmf32 (controller)      *)
(*   - the file-replay loop of test.ts                                     *)
(*   - the node-vad driven harness                                         *)
(*   - Whisper.vad_simple of either class on arbitrary windows             *)
(*                                                                         *)
(* Numbers.  A JavaScript number is an exact rational <<n, d>> or NaN.  A  *)
(* converted sample is int16/32768, which float32 represents exactly.      *)
(* Values produced by the high-pass filter are exact rationals with pi     *)
(* taken as 22/7; floating-point rounding is not modelled.                 *)
(***************************************************************************)
EXTENDS Integers, Sequences, FiniteSets, TLC

(***************************************************************************)
(* Bounds of the model.                                                    *)
(***************************************************************************)
\* samples per second of the (scaled-down) audio fed to the model; the
\* program's WHISPER_SAMPLE_RATE is 16000, far too many samples per window
\* to enumerate
ModelSampleRate == 5
\* longest window the controller model lets grow before it stops feeding
MaxWindow == 7
\* longest chunk handed to Whisper.transcribe
MaxChunkLen == 2

(***************************************************************************)
(* Exact rational arithmetic (numbers of the VAD).                         *)
(***************************************************************************)
Abs(x) == IF x < 0 THEN -x ELSE x

RECURSIVE GCD(_, _)
GCD(a, b) == IF b = 0 THEN a ELSE GCD(b, a % b)

Norm(n, d) ==
  LET g == GCD(Abs(n), Abs(d))
      s == IF d < 0 THEN -1 ELSE 1
  IN  IF n = 0 THEN <<0, 1>> ELSE <<s * (n \div g), s * (d \div g)>>

LCM(a, b) == (a \div GCD(a, b)) * b

\* a JavaScript number: an exact rational <<n, d>> with d > 0, or NaN
NaN == <<0, 0>>
IsNaN(a) == a[2] = 0
Rat(k) == <<k, 1>>
RAdd(a, b) ==
  IF IsNaN(a) \/ IsNaN(b) THEN NaN
  ELSE LET l == LCM(a[2], b[2])
       IN  Norm(a[1] * (l \div a[2]) + b[1] * (l \div b[2]), l)
RNeg(a) == <<-a[1], a[2]>>
RSub(a, b) == RAdd(a, RNeg(b))
RMul(a, b) ==
  IF IsNaN(a) \/ IsNaN(b) THEN NaN
  ELSE LET x == Norm(a[1], b[2])
           y == Norm(b[1], a[2])
       IN  Norm(x[1] * y[1], x[2] * y[2])
RAbs(a) == <<Abs(a[1]), a[2]>>
\* x / k for an integer k; 0 / 0 is NaN (a non-zero x is never divided by 0
\* in this program)
RDivInt(a, k) == IF k = 0 \/ IsNaN(a) THEN NaN ELSE Norm(a[1], a[2] * k)
\* a <= b; any comparison with NaN is false
RLe(a, b) ==
  IF IsNaN(a) \/ IsNaN(b) THEN FALSE
  ELSE LET l == LCM(a[2], b[2])
       IN  a[1] * (l \div a[2]) <= b[1] * (l \div b[2])

RECURSIVE SeqsUpTo(_, _)
SeqsUpTo(S, n) ==
  IF n = 0 THEN {<<>>}
  ELSE LET shorter == SeqsUpTo(S, n - 1)
       IN  shorter \cup {Append(q, x) : q \in {r \in shorter : Len(r) = n - 1},
                                        x \in S}

\* Math.round(n / d) for n >= 0, d > 0 (halves round up)
MathRound(n, d) == (2 * n + d) \div (2 * d)


(***************************************************************************)
(* Whisper.highPassFilter: single-pole high-pass filter, in place.         *)
(***************************************************************************)
\* Math.PI as a rational
PiNum == 22
PiDen == 7

\* alpha = dt / (rc + dt), rc = 1 / (2 * PI * cutoff), dt = 1 / sampleRate
FilterAlpha(cutoff, sampleRate) ==
  Norm(2 * PiNum * cutoff, PiDen * sampleRate + 2 * PiNum * cutoff)

\* one pass of the loop body at (1-based) index i:
\*   y = alpha * (y + data[i] - data[i - 1]); data[i] = y;
\* data[i - 1] is read from the array being written
HighPassStep(st, i, alpha) ==
  LET y2 == RMul(alpha, RSub(RAdd(st.y, st.data[i]), st.data[i - 1]))
  IN  [data |-> [st.data EXCEPT ![i] = y2], y |-> y2]

\* for (let i = 1; i < data.length; i++) { ... }: the passes lo..hi in
\* increasing order of i, st being the array and y before pass lo.  The range
\* is run as its first half followed by its second half, the state after the
\* first half being computed before the second half starts (this keeps the
\* evaluation shallow).
RECURSIVE HighPassLoop(_, _, _, _)
HighPassLoop(st, lo, hi, alpha) ==
  IF lo > hi THEN st
  ELSE IF lo = hi THEN HighPassStep(st, lo, alpha)
  ELSE LET mid == (lo + hi) \div 2
       IN  CHOOSE r \in {HighPassLoop(half, mid + 1, hi, alpha) :
                         half \in {HighPassLoop(st, lo, mid, alpha)}} : TRUE

highPassFilter(data, cutoff, sampleRate) ==
  IF Len(data) = 0 THEN data
  ELSE HighPassLoop([data |-> data, y |-> data[1]], 2, Len(data),
                    FilterAlpha(cutoff, sampleRate)).data

(***************************************************************************)
(* Whisper.vad_simple.                                                     *)
(***************************************************************************)
\* JSON.parse(JSON.stringify(pcmf32)): a new array ("fresh") holding the same
\* finite numbers
\* slip of the copy: the detector works on the caller's array itself
JSONCopyAlias(pcmf32) == [ref |-> "same", data |-> pcmf32]
JSONCopy(pcmf32) == [ref |-> "fresh", data |-> pcmf32]

\* the summation loop over the (1-based) indices lo..hi, counting only the
\* indices >= from: energyAll is the sum with from = 1, energyLast the sum
\* over the (0-based) indices >= nSamples - nSamplesLast (the range is summed
\* as its two halves, which keeps the evaluation shallow)
RECURSIVE EnergySum(_, _, _, _)
EnergySum(data, from, lo, hi) ==
  IF lo > hi THEN Rat(0)
  ELSE IF lo = hi THEN (IF lo >= from THEN RAbs(data[lo]) ELSE Rat(0))
  ELSE LET mid == (lo + hi) \div 2
       IN  RAdd(EnergySum(data, from, lo, mid),
                EnergySum(data, from, mid + 1, hi))

\* slip of the normalisation: the trailing sum is divided by the length of
\* the whole window
EnergyLastMeanOverAll(sum, nSamples, nSamplesLast) == RDivInt(sum, nSamples)
\* energyLast /= nSamplesLast
EnergyLastMean(sum, nSamples, nSamplesLast) == RDivInt(sum, nSamplesLast)

\* slip of the comparison: < in place of <=
EnergyTestStrict(energyLast, vadThold, energyAll) ==
  /\ RLe(energyLast, RMul(vadThold, energyAll))
  /\ energyLast # RMul(vadThold, energyAll)
\* return energyLast <= vadThold * energyAll
EnergyTest(energyLast, vadThold, energyAll) ==
  RLe(energyLast, RMul(vadThold, energyAll))

\* what a call that stops at the "not enough samples" test reports
VadSkipped(pcmf32, nSamples, nSamplesLast) ==
  [ret |-> FALSE, pcmf32 |-> pcmf32, computed |-> FALSE,
   nSamples |-> nSamples, nSamplesLast |-> nSamplesLast,
   old |-> pcmf32, energyAll |-> Rat(0), energyLast |-> Rat(0)]

\* lines after the "not enough samples" test: filter, energies, comparison.
\* The result carries what the caller's array holds afterwards (pcmf32), the
\* working array (old) and the two means as computed.
VadDecide(pcmf32, copy, nSamples, nSamplesLast, sampleRate, vadThold, freqThold) ==
  LET old == IF freqThold > 0
             THEN highPassFilter(copy.data, freqThold, sampleRate)
             ELSE copy.data
      energyAll  == RDivInt(EnergySum(old, 1, 1, nSamples), nSamples)
      energyLast == EnergyLastMean(EnergySum(old, nSamples - nSamplesLast + 1,
                                             1, nSamples),
                                   nSamples, nSamplesLast)
  IN  [ret    |-> EnergyTest(energyLast, vadThold, energyAll),
       pcmf32 |-> IF copy.ref = "fresh" THEN pcmf32 ELSE old,
       computed |-> TRUE,
       nSamples |-> nSamples, nSamplesLast |-> nSamplesLast,
       old |-> old, energyAll |-> energyAll, energyLast |-> energyLast]

\* the variant next to the session window: returns false when
\* nSamplesLast >= nSamples
vad_simple(pcmf32, sampleRate, lastMs, vadThold, freqThold) ==
  LET copy         == JSONCopy(pcmf32)
      nSamples     == Len(copy.data)
      nSamplesLast == MathRound(sampleRate * lastMs, 1000)
  IN  IF nSamplesLast >= nSamples
      THEN VadSkipped(pcmf32, nSamples, nSamplesLast)
      ELSE VadDecide(pcmf32, copy, nSamples, nSamplesLast, sampleRate,
                     vadThold, freqThold)

\* the variant of the two-argument Whisper: returns false only when
\* nSamplesLast > nSamples
vad_simple_dll(pcmf32, sampleRate, lastMs, vadThold, freqThold) ==
  LET copy         == JSONCopy(pcmf32)
      nSamples     == Len(copy.data)
      nSamplesLast == MathRound(sampleRate * lastMs, 1000)
  IN  IF nSamplesLast > nSamples
      THEN VadSkipped(pcmf32, nSamples, nSamplesLast)
      ELSE VadDecide(pcmf32, copy, nSamples, nSamplesLast, sampleRate,
                     vadThold, freqThold)

(***************************************************************************)
(* Buffers and Whisper.pcm16sto32f / Whisper.prepare.                      *)
(*                                                                         *)
(* A Buffer is a view [store, byteOffset, length] of an ArrayBuffer        *)
(* (store, a sequence of bytes): Buffer.from and Buffer.concat return      *)
(* either a Buffer that owns its ArrayBuffer or a slice of a larger,       *)
(* shared one.                                                             *)
(***************************************************************************)
\* byte values of the raw audio in the model
ByteVals == {0, 1, 128, 255}
\* longest ArrayBuffer behind a chunk handed to the converter
MaxStoreLen == 4

Buffers ==
  {b \in [store : SeqsUpTo(ByteVals, MaxStoreLen),
          byteOffset : 0..MaxStoreLen, length : 0..MaxStoreLen] :
     b.byteOffset + b.length <= Len(b.store)}

\* the bytes the Buffer stands for
ViewBytes(b) == SubSeq(b.store, b.byteOffset + 1, b.byteOffset + b.length)

\* a Buffer that owns its ArrayBuffer
ExactBuffer(bytes) == [store |-> bytes, byteOffset |-> 0, length |-> Len(bytes)]

\* DataView.getInt16(i, true) on the bytes: little-endian, two's complement
\* (i is the 0-based byte offset)
GetInt16LE(bytes, i) ==
  LET u == bytes[i + 1] + 256 * bytes[i + 2]
  IN  IF u >= 32768 THEN u - 65536 ELSE u

\* the divisor of the conversion
PcmScale == 32768

\* which bytes the DataView of pcm16sto32f covers: new DataView(pcm16.buffer)
\* is the whole ArrayBuffer behind the Buffer
ConverterInput(pcm16) == pcm16.store

\* for (i = 0; i < byteLength; i += 2)
\*   newView.setFloat32(i*2, view.getInt16(i, true)/32768, true)
\* getInt16 throws a RangeError when fewer than two bytes are left; out is
\* the float32 cells written so far
RECURSIVE ConvertLoop(_, _, _)
ConvertLoop(bytes, i, out) ==
  IF ~(i < Len(bytes)) THEN [threw |-> FALSE, floats |-> out]
  ELSE IF i + 2 > Len(bytes) THEN [threw |-> TRUE, floats |-> <<>>]
  ELSE ConvertLoop(bytes, i + 2,
                   Append(out, Norm(GetInt16LE(bytes, i), PcmScale)))

\* pcm16sto32f(pcm16): the returned Buffer owns the new ArrayBuffer of
\* float32 cells; nothing is returned when the loop throws
pcm16sto32f(pcm16) == ConvertLoop(ConverterInput(pcm16), 0, <<>>)

\* prepare(pcm): copies new Float32Array(pcm.buffer) into a number array
prepare(floats) == [i \in 1..Len(floats) |-> floats[i]]

(***************************************************************************)
(* The session of the one-argument Whisper: constructor and transcribe     *)
(* with the session window pcmf32.                                         *)
(***************************************************************************)
VARIABLES
  context,    \* "none" before construction, then "valid" or "null"
  pcmf32,     \* this.pcmf32, the session window
  text,       \* this.text
  ctorThrew,  \* whether the constructor reported a failure to its caller
  arr,        \* argument of the last transcribe call
  ret,        \* what the last transcribe call returned: [kind, text]
  threw,      \* whether the last transcribe call threw
  pre,        \* window, text and result kind just before the last call
  batch,      \* chunks received since the last final result, last one included
  engine,     \* last whisper_full call: [calls, ctx, samples, n, ok, order]
  vadRan      \* last vad_simple call of transcribe: [calls, samples, ret]

ctlVars == <<context, pcmf32, text, ctorThrew, arr, ret, threw, pre, batch,
             engine, vadRan>>

\* values of the samples fed to the controller (1.0 is 32768/32768)
Samples == {Rat(0), Rat(1)}

CtlChunks == SeqsUpTo(Samples, MaxChunkLen)

\* what whisper_full_n_segments / whisper_full_get_segment_text report after
\* a call
SegmentLists == {<<>>, <<"a">>, <<"a", "b">>}

\* this.text = ''; for (i < x) this.text += segment text
RECURSIVE SegmentText(_, _, _)
SegmentText(acc, segs, i) ==
  IF i > Len(segs) THEN acc ELSE SegmentText(acc \o segs[i], segs, i + 1)

\* Whisper.n_samples_30s = (1e-3 * 30000) * WHISPER_SAMPLE_RATE
n_samples_30s == 30 * ModelSampleRate

\* arguments of the vad_simple call in transcribe:
\* vad_simple(this.pcmf32, WHISPER_SAMPLE_RATE, 1000, 0.6, 100.0, true)
CtlLastMs == 1000
CtlVadThold == <<3, 5>>
CtlFreqThold == 100

CtlInit ==
  /\ context = "none"
  /\ pcmf32 = <<>>
  /\ text = ""
  /\ ctorThrew = FALSE
  /\ arr = <<>>
  /\ ret = [kind |-> "none", text |-> ""]
  /\ threw = FALSE
  /\ pre = [pcmf32 |-> <<>>, text |-> "", kind |-> "none"]
  /\ batch = <<>>
  /\ engine = [calls |-> 0, ctx |-> "none", samples |-> <<>>, n |-> 0,
               ok |-> TRUE, order |-> <<>>]
  /\ vadRan = [calls |-> 0, samples |-> <<>>, ret |-> FALSE]

\* constructor(model): this.context = whisper_init_from_file(model), which is
\* a valid context or NULL; the result is stored unchecked and nothing is
\* thrown
Constructor(initOk) ==
  /\ context = "none"
  /\ context' = IF initOk THEN "valid" ELSE "null"
  /\ ctorThrew' = FALSE
  /\ UNCHANGED <<pcmf32, text, arr, ret, threw, pre, batch, engine, vadRan>>

\* slips of the accumulation: the chunk replaces the window; the chunk is put
\* in front of the window
AccumulateChunkOnly(window, chunk) == chunk
AccumulatePrepend(window, chunk) == chunk \o window
\* this.pcmf32 = this.pcmf32.concat(arr)
Accumulate(window, chunk) == window \o chunk

\* slip of the reset: the window survives a final result
AfterFinalKept(window) == window
\* the window a final result leaves behind: this.pcmf32 = []
AfterFinal(window) == <<>>

\* the answers the engine can give: ok is the status whisper_full returns
\* natively, which the binding (declared 'void') discards; segs is what
\* whisper_full_n_segments / whisper_full_get_segment_text report afterwards.
\* A call on a NULL context cannot succeed.
EngineAnswers(ctx) ==
  {a \in [segs : SegmentLists, ok : BOOLEAN] : (ctx = "null") => ~a.ok}

\* transcribe(arr)
Transcribe(chunk) ==
  /\ context \in {"valid", "null"}
  /\ \E window \in {Accumulate(pcmf32, chunk)} :
     \E vad \in {vad_simple(window, ModelSampleRate, CtlLastMs, CtlVadThold,
                            CtlFreqThold)} :
     \E answer \in EngineAnswers(context) :
     \E newText \in {SegmentText("", answer.segs, 1)} :
         /\ arr' = chunk
         /\ pre' = [pcmf32 |-> pcmf32, text |-> text, kind |-> ret.kind]
         /\ batch' = (IF ret.kind = "final" THEN <<>> ELSE batch) \o chunk
         /\ engine' = [calls |-> 1, ctx |-> context, samples |-> window,
                       n |-> Len(window), ok |-> answer.ok,
                       order |-> <<"whisper_full", "vad_simple">>]
         /\ vadRan' = [calls |-> 1, samples |-> window, ret |-> vad.ret]
         /\ text' = newText
         /\ threw' = FALSE
         /\ IF vad.ret
            THEN /\ pcmf32' = AfterFinal(vad.pcmf32)
                 /\ ret' = [kind |-> "final", text |-> newText]
            ELSE /\ pcmf32' = vad.pcmf32
                 /\ ret' = [kind |-> "partial", text |-> newText]
  /\ UNCHANGED <<context, ctorThrew>>

(***************************************************************************)
(* The converter on its own: pcm16sto32f followed by prepare, applied to   *)
(* an arbitrary Buffer.                                                    *)
(***************************************************************************)
VARIABLES
  cvChunk,   \* the Buffer handed to pcm16sto32f, as it is after the call
  cvIn,      \* the same Buffer as it was before the call
  cvOut      \* [state |-> "none" | "returned" | "threw", samples]

convVars == <<cvChunk, cvIn, cvOut>>

ConvInit ==
  /\ cvChunk = ExactBuffer(<<>>)
  /\ cvIn = ExactBuffer(<<>>)
  /\ cvOut = [state |-> "none", samples |-> <<>>]

\* the chunk to convert is any Buffer
ConvInputs ==
  /\ cvChunk \in Buffers
  /\ cvIn = cvChunk
  /\ cvOut = [state |-> "none", samples |-> <<>>]

\* const pcm = whisper.pcm16sto32f(chunk); const arr = whisper.prepare(pcm);
\* the chunk is only read
ConvertChunk ==
  /\ cvOut.state = "none"
  /\ UNCHANGED <<cvChunk, cvIn>>
  /\ \E r \in {pcm16sto32f(cvChunk)} :
       cvOut' = IF r.threw
                THEN [state |-> "threw", samples |-> <<>>]
                ELSE [state |-> "returned", samples |-> prepare(r.floats)]

(***************************************************************************)
(* The file-replay loop of test.ts (two-argument Whisper).                 *)
(***************************************************************************)
VARIABLES
  rolling,   \* the rolling sample array
  rpc,       \* "run" inside the loop, "aborted" after an uncaught exception,
             \* "done" after the last chunk
  rChunk,    \* the chunk of the last iteration
  rPre,      \* rolling before the last iteration
  rThrew,    \* whether pcm16sto32f threw in the last iteration
  rVad,      \* [calls, ret] of vad_simple in the last iteration
  rEngine,   \* [calls, samples] of whisper.transcribe in the last iteration
  rEarlier   \* the samples of the most recent whisper.transcribe call of an
             \* earlier iteration (empty when there was none)

replayVars == <<rolling, rpc, rChunk, rPre, rThrew, rVad, rEngine, rEarlier>>

\* longest rolling array the replay model lets grow
MaxRolling == 4
\* longest chunk of the replayed file, in bytes
MaxReplayChunkLen == 3
\* byte values of the replayed file
ReplayBytes == {0, 255}

\* what the shared allocation pool holds in front of a pooled Buffer
PoolBefore == <<1, 0>>

\* a Buffer carved out of the shared pool: the ArrayBuffer is larger than the
\* Buffer, has an even length, and the Buffer starts at an even offset
PooledBuffer(bytes) ==
  [store |-> PoolBefore \o bytes \o (IF Len(bytes) % 2 = 1 THEN <<0>> ELSE <<>>),
   byteOffset |-> Len(PoolBefore), length |-> Len(bytes)]

\* Buffer.from(buffer) / Buffer.concat(list): a copy of the bytes, either in
\* an ArrayBuffer of its own or in the shared pool
Allocations(bytes) == {ExactBuffer(bytes), PooledBuffer(bytes)}

\* arguments of the vad_simple call of the loop:
\* vad_simple(rolling, WHISPER_SAMPLE_RATE, 100, 0.8, 100.0, false)
ReplayLastMs == 100
ReplayVadThold == <<4, 5>>
ReplayFreqThold == 100

ReplayInit ==
  /\ rolling = <<>>
  /\ rpc = "run"
  /\ rChunk = ExactBuffer(<<>>)
  /\ rPre = <<>>
  /\ rThrew = FALSE
  /\ rVad = [calls |-> 0, ret |-> FALSE]
  /\ rEngine = [calls |-> 0, samples |-> <<>>]
  /\ rEarlier = <<>>

\* slip of the gate: the engine runs on every chunk
ReplayGateAlways(vadRet) == TRUE
\* if (Whisper.vad_simple(rolling, ...)) { whisper.transcribe(rolling) }
ReplayGate(vadRet) == vadRet

\* one iteration of the loop on the chunk Buffer.from(wav.slice(i, i+chunkLen));
\* an exception of pcm16sto32f is not caught and ends the script
ReplayIteration(chunk) ==
  /\ rpc = "run"
  /\ rChunk' = chunk
  /\ rPre' = rolling
  /\ rEarlier' = IF rEngine.calls = 1 THEN rEngine.samples ELSE rEarlier
  /\ \E r \in {pcm16sto32f(chunk)} :
       IF r.threw
       THEN /\ rThrew' = TRUE
            /\ rpc' = "aborted"
            /\ rVad' = [calls |-> 0, ret |-> FALSE]
            /\ rEngine' = [calls |-> 0, samples |-> <<>>]
            /\ UNCHANGED rolling
       ELSE \E grown \in {rolling \o prepare(r.floats)} :
            \E vad \in {vad_simple_dll(grown, ModelSampleRate, ReplayLastMs,
                                       ReplayVadThold, ReplayFreqThold)} :
              /\ rThrew' = FALSE
              /\ rpc' = "run"
              /\ rolling' = vad.pcmf32
              /\ rVad' = [calls |-> 1, ret |-> vad.ret]
              /\ rEngine' = IF ReplayGate(vad.ret)
                            THEN [calls |-> 1, samples |-> vad.pcmf32]
                            ELSE [calls |-> 0, samples |-> <<>>]

\* i >= len: the loop is over
ReplayEnd ==
  /\ rpc = "run"
  /\ rpc' = "done"
  /\ UNCHANGED <<rolling, rChunk, rPre, rThrew, rVad, rEngine, rEarlier>>

(***************************************************************************)
(* The node-vad driven harness: the producer loop awaits                   *)
(* vad._processAudio(chunk); the stream delivers one 'data' event per      *)
(* chunk to an async handler that has no await in it and calls the engine  *)
(* through a synchronous binding.                                          *)
(***************************************************************************)
VARIABLES
  hRolling,  \* the rolling Buffer
  lpc,       \* the loop: "call" (about to call _processAudio), "await", "done"
  sent,      \* number of _processAudio calls made
  vadWork,   \* the chunk node-vad is working on (at most one), as a sequence
  resolved,  \* whether the promise of the last _processAudio call is resolved
  hQueue,    \* data events pushed by the stream, not yet given to the handler
  hActive,   \* handler invocations that have started and not finished
  hDone,     \* ids of the events whose handler has finished, in order
  hCalls,    \* the transcribe_get_object calls in order: [arr, heard], arr
             \* the sample array given, heard the value of hHeard at the call
  hHeard     \* the audioData buffers the handler has received since the
             \* last transcribe_get_object call returned, in arrival order

harnessVars == <<hRolling, lpc, sent, vadWork, resolved, hQueue, hActive,
                 hDone, hCalls, hHeard>>

\* number of chunks the loop of the model sends
MaxHarnessChunks == 3
\* audioData buffers of the model
HarnessAudio == {<<1, 0>>, <<255, 255>>}

HarnessInit ==
  /\ hRolling = ExactBuffer(<<>>)
  /\ lpc = "call"
  /\ sent = 0
  /\ vadWork = <<>>
  /\ resolved = FALSE
  /\ hQueue = <<>>
  /\ hActive = <<>>
  /\ hDone = <<>>
  /\ hCalls = <<>>
  /\ hHeard = <<>>

\* were the engine call awaited, other callbacks could run while a handler
\* waits for the engine
JsThreadFreeEngineAwaited ==
  \A k \in DOMAIN hActive : hActive[k].pc = "engine"
\* JavaScript runs one callback at a time and the handler never yields: it
\* has no await and whisper_full is a blocking call, so nothing else runs
\* between its first and its last statement
JsThreadFree == hActive = <<>>

\* await vad._processAudio(chunk): the call
LoopCall(audio) ==
  /\ lpc = "call"
  /\ sent < MaxHarnessChunks
  /\ JsThreadFree
  /\ sent' = sent + 1
  /\ vadWork' = <<[id |-> sent + 1, audioData |-> audio]>>
  /\ resolved' = FALSE
  /\ lpc' = "await"
  /\ UNCHANGED <<hRolling, hQueue, hActive, hDone, hCalls, hHeard>>

\* node-vad has classified the chunk: it pushes {audioData, speech} on the
\* stream and resolves the promise
VadPush(end) ==
  /\ vadWork # <<>>
  /\ JsThreadFree
  /\ hQueue' = Append(hQueue, [id |-> vadWork[1].id,
                               audioData |-> vadWork[1].audioData,
                               end |-> end])
  /\ vadWork' = <<>>
  /\ resolved' = TRUE
  /\ UNCHANGED <<hRolling, lpc, sent, hActive, hDone, hCalls, hHeard>>

\* await vad._processAudio(chunk): the loop goes on
LoopResume ==
  /\ lpc = "await"
  /\ resolved
  /\ JsThreadFree
  /\ lpc' = "call"
  /\ UNCHANGED <<hRolling, sent, vadWork, resolved, hQueue, hActive, hDone,
                 hCalls, hHeard>>

\* both for loops are over
LoopExit ==
  /\ lpc = "call"
  /\ sent = MaxHarnessChunks
  /\ JsThreadFree
  /\ lpc' = "done"
  /\ UNCHANGED <<hRolling, sent, vadWork, resolved, hQueue, hActive, hDone,
                 hCalls, hHeard>>

\* the handler starts on the oldest pushed event:
\* rolling = Buffer.concat([rolling, state.audioData]); if (state.speech.end)
HandlerStart ==
  /\ hQueue # <<>>
  /\ JsThreadFree
  /\ hRolling' \in Allocations(ViewBytes(hRolling) \o Head(hQueue).audioData)
  /\ hQueue' = Tail(hQueue)
  /\ hHeard' = Append(hHeard, Head(hQueue).audioData)
  /\ IF Head(hQueue).end
     THEN /\ hActive' = Append(hActive, [id |-> Head(hQueue).id,
                                         pc |-> "convert", arr |-> <<>>])
          /\ UNCHANGED hDone
     ELSE /\ hDone' = Append(hDone, Head(hQueue).id)
          /\ UNCHANGED hActive
  /\ UNCHANGED <<lpc, sent, vadWork, resolved, hCalls>>

RemoveAt(q, k) == SubSeq(q, 1, k - 1) \o SubSeq(q, k + 1, Len(q))

\* pcm = whisper.pcm16sto32f(rolling); arr = whisper.prepare(pcm); then
\* transcribe_get_object(arr) enters whisper_full.  An exception of
\* pcm16sto32f ends the handler (its promise is rejected).
HandlerConvert(k) ==
  /\ k \in DOMAIN hActive
  /\ hActive[k].pc = "convert"
  /\ \E r \in {pcm16sto32f(hRolling)} :
       IF r.threw
       THEN /\ hActive' = RemoveAt(hActive, k)
            /\ hDone' = Append(hDone, hActive[k].id)
       ELSE /\ hActive' = [hActive EXCEPT ![k].pc = "engine",
                                          ![k].arr = prepare(r.floats)]
            /\ UNCHANGED hDone
  /\ UNCHANGED <<hRolling, lpc, sent, vadWork, resolved, hQueue, hCalls,
                 hHeard>>

\* whisper_full returns, the segments are printed, rolling = Buffer.alloc(0)
HandlerEngineReturn(k) ==
  /\ k \in DOMAIN hActive
  /\ hActive[k].pc = "engine"
  /\ hCalls' = Append(hCalls, [arr |-> hActive[k].arr, heard |-> hHeard])
  /\ hHeard' = <<>>
  /\ hRolling' = ExactBuffer(<<>>)
  /\ hActive' = RemoveAt(hActive, k)
  /\ hDone' = Append(hDone, hActive[k].id)
  /\ UNCHANGED <<lpc, sent, vadWork, resolved, hQueue>>

\* engine calls in flight
InFlight == {k \in DOMAIN hActive : hActive[k].pc = "engine"}

(***************************************************************************)
(* The detector on its own: Whisper.vad_simple of either class applied to  *)
(* an arbitrary window and configuration.                                  *)
(***************************************************************************)
VARIABLES
  vdIn,      \* the arguments of the call: [impl, window, sampleRate, lastMs,
             \* vadThold, freqThold]
  vdOut      \* [state |-> "none" | "done", r |-> what the call reported]

vadVars == <<vdIn, vdOut>>

\* static readonly WHISPER_SAMPLE_RATE = 16000
WHISPER_SAMPLE_RATE == 16000

\* longest window of the enumerated detector inputs
MaxVadWindow == 4
\* sample values of the enumerated windows
VadSamples == {Rat(0), <<1, 2>>, Rat(1), Rat(-1)}
\* lastMs, vadThold and freqThold of the enumerated configurations
VadLastMs == {0, 200, 400, 1000}
VadTholds == {<<1, 2>>, Rat(1)}
VadFreqTholds == {0, 100}
\* the two classes: "one-arg" is the Whisper with the session window,
\* "two-arg" the Whisper used by the replay loop and the node-vad harness
VadImpls == {"one-arg", "two-arg"}

\* every short window under every enumerated configuration
VadGrid ==
  [impl : VadImpls, window : SeqsUpTo(VadSamples, MaxVadWindow),
   sampleRate : {ModelSampleRate}, lastMs : VadLastMs, vadThold : VadTholds,
   freqThold : VadFreqTholds]

\* 5000 samples of amplitude 0.5 followed by 2000 samples of amplitude 0.01
LoudThenSilent ==
  [i \in 1..7000 |-> IF i <= 5000 THEN <<1, 2>> ELSE <<1, 100>>]
\* 7000 samples of amplitude 0.5
AllLoud == [i \in 1..7000 |-> <<1, 2>>]

\* the two long windows at 16 kHz, the last 125 ms being the last 2000
\* samples, threshold 0.5, filter off
VadLongInputs ==
  [impl : VadImpls, window : {LoudThenSilent, AllLoud},
   sampleRate : {WHISPER_SAMPLE_RATE}, lastMs : {125}, vadThold : {<<1, 2>>},
   freqThold : {0}]

VadInit ==
  /\ vdIn = [impl |-> "one-arg", window |-> <<>>,
             sampleRate |-> ModelSampleRate, lastMs |-> 0,
             vadThold |-> Rat(1), freqThold |-> 0]
  /\ vdOut = [state |-> "none", r |-> VadSkipped(<<>>, 0, 0)]

VadInputs ==
  /\ vdIn \in VadGrid \cup VadLongInputs
  /\ vdOut = [state |-> "none", r |-> VadSkipped(<<>>, 0, 0)]

\* Whisper.vad_simple(window, sampleRate, lastMs, vadThold, freqThold, false)
\* of the class vdIn.impl
VadCall ==
  /\ vdOut.state = "none"
  /\ UNCHANGED vdIn
  /\ \E r \in {IF vdIn.impl = "one-arg"
                THEN vad_simple(vdIn.window, vdIn.sampleRate, vdIn.lastMs,
                                vdIn.vadThold, vdIn.freqThold)
                ELSE vad_simple_dll(vdIn.window, vdIn.sampleRate, vdIn.lastMs,
                                    vdIn.vadThold, vdIn.freqThold)} :
       vdOut' = [state |-> "done", r |-> r]

(***************************************************************************)
(* Specifications.                                                         *)
(***************************************************************************)
vars == <<ctlVars, convVars, replayVars, harnessVars, vadVars>>

Init == CtlInit /\ ConvInit /\ ReplayInit /\ HarnessInit /\ VadInit

Construct ==
  /\ \E initOk \in BOOLEAN : Constructor(initOk)
  /\ UNCHANGED <<convVars, replayVars, harnessVars, vadVars>>

\* one chunk of the bounded model
Chunk ==
  /\ \E chunk \in CtlChunks :
       /\ Len(pcmf32) + Len(chunk) <= MaxWindow
       /\ Transcribe(chunk)
  /\ UNCHANGED <<convVars, replayVars, harnessVars, vadVars>>

Next == Construct \/ Chunk

\* the session fed arbitrary chunks
Spec == Init /\ [][Next]_vars

\* one second of loud audio
LoudSecond == [i \in 1..ModelSampleRate |-> Rat(1)]

\* a stream of loud audio, one second per chunk, fed until the window has
\* passed thirty seconds
LoudChunk ==
  /\ Len(pcmf32) <= n_samples_30s
  /\ Transcribe(LoudSecond)
  /\ UNCHANGED <<convVars, replayVars, harnessVars, vadVars>>

NextGrow == Construct \/ LoudChunk

\* the session fed loud audio only
SpecGrow == Init /\ [][NextGrow]_vars

InitConvert ==
  CtlInit /\ ConvInputs /\ ReplayInit /\ HarnessInit /\ VadInit

Convert == ConvertChunk /\ UNCHANGED <<ctlVars, replayVars, harnessVars, vadVars>>

NextConvert == Convert

\* the converter applied to arbitrary Buffers
SpecConvert == InitConvert /\ [][NextConvert]_vars

ReplayChunk ==
  /\ \E bytes \in SeqsUpTo(ReplayBytes, MaxReplayChunkLen) \ {<<>>} :
     \E chunk \in Allocations(bytes) :
       /\ Len(rolling) + (Len(chunk.store) \div 2) <= MaxRolling
       /\ ReplayIteration(chunk)
  /\ UNCHANGED <<ctlVars, convVars, harnessVars, vadVars>>

ReplayFinish == ReplayEnd /\ UNCHANGED <<ctlVars, convVars, harnessVars, vadVars>>

NextReplay == ReplayChunk \/ ReplayFinish

\* the replay loop of test.ts
SpecReplay == Init /\ [][NextReplay]_vars

HarnessFrame == UNCHANGED <<ctlVars, convVars, replayVars, vadVars>>

ProducerCall == (\E audio \in HarnessAudio : LoopCall(audio)) /\ HarnessFrame
StreamPush == (\E end \in BOOLEAN : VadPush(end)) /\ HarnessFrame
ProducerResume == LoopResume /\ HarnessFrame
ProducerExit == LoopExit /\ HarnessFrame
DataEvent == HandlerStart /\ HarnessFrame
EngineEnter == (\E k \in DOMAIN hActive : HandlerConvert(k)) /\ HarnessFrame
EngineReturn == (\E k \in DOMAIN hActive : HandlerEngineReturn(k)) /\ HarnessFrame

NextHarness ==
  \/ ProducerCall
  \/ StreamPush
  \/ ProducerResume
  \/ ProducerExit
  \/ DataEvent
  \/ EngineEnter
  \/ EngineReturn

\* the node-vad driven harness
SpecHarness == Init /\ [][NextHarness]_vars

InitVad == CtlInit /\ ConvInit /\ ReplayInit /\ HarnessInit /\ VadInputs

Detect ==
  VadCall /\ UNCHANGED <<ctlVars, convVars, replayVars, harnessVars>>

NextVad == Detect

\* the detector applied to arbitrary windows and configurations
SpecVad == InitVad /\ [][NextVad]_vars

(***************************************************************************)
(* Properties.                                                             *)
(***************************************************************************)
IsPrefix(p, q) == Len(p) <= Len(q) /\ SubSeq(q, 1, Len(p)) = p

\* C1: a call that ends with a final result leaves the window empty, and the
\* engine call of the first chunk after a final result receives exactly that
\* chunk's samples.
C1_FinalEmptiesWindow ==
  /\ (ret.kind = "final") => (pcmf32 = <<>>)
  /\ (pre.kind = "final" /\ engine.calls = 1) => (engine.samples = arr)

\* a non-empty chunk has been processed right after a final result that
\* closed a non-empty window
C1_Witness ==
  /\ pre.kind = "final"
  /\ ret.kind = "partial"
  /\ arr # <<>>
  /\ engine.samples = arr

\* C2: every processed chunk yields exactly one result, final exactly when
\* the VAD is true on the window including the chunk and partial otherwise;
\* after a partial result the window is the previous window followed by the
\* chunk.
C2_OneResultPerChunk ==
  (engine.calls = 1) =>
    /\ ~threw
    /\ ret.kind \in {"partial", "final"}
    /\ (ret.kind = "final") <=>
         vad_simple(pre.pcmf32 \o arr, ModelSampleRate, CtlLastMs,
                    CtlVadThold, CtlFreqThold).ret
    /\ (ret.kind = "partial") => (pcmf32 = pre.pcmf32 \o arr)

\* a final result on a window built from several chunks
C2_Witness ==
  /\ ret.kind = "final"
  /\ pre.kind = "partial"
  /\ pre.pcmf32 # <<>>
  /\ arr # <<>>

C4_WindowBounded == Len(pcmf32) <= n_samples_30s

\* C5 (as claimed): a failed engine call is reported to the caller, emits no
\* result, leaves this.text as it was and keeps the accumulated window.
C5_EngineFailureSurfaced ==
  (engine.calls = 1 /\ ~engine.ok) =>
    /\ threw
    /\ text = pre.text
    /\ IsPrefix(pre.pcmf32, pcmf32)

\* C6 (as claimed): no engine call is ever made on a session whose engine
\* initialisation failed (the constructor having reported the failure).
C6_InitFailureSurfaced ==
  (engine.calls = 1) => (engine.ctx = "valid" /\ ~ctorThrew)

\* C7: chunks are processed one after the other: at most one handler is
\* between its first and last statement, it is the handler of the oldest
\* chunk not yet processed, handlers finish in arrival order, and at most
\* one engine call is in flight on the context.
C7_SequentialProcessing ==
  /\ Cardinality(InFlight) <= 1
  /\ Len(hActive) <= 1
  /\ \A k \in DOMAIN hActive : hActive[k].id = Len(hDone) + 1
  /\ \A i \in DOMAIN hDone : hDone[i] = i

\* an engine call is in flight while the next chunk's data event is already
\* waiting and the loop has moved on
C7_Witness ==
  /\ InFlight # {}
  /\ hQueue # <<>>
  /\ lpc = "call"

\* the sample the claim expects at (1-based) position i of the output: the
\* 16-bit integer at byte offset 2(i-1) of the chunk, divided by 32768
ExpectedSample(b, i) == Norm(GetInt16LE(ViewBytes(b), 2 * (i - 1)), PcmScale)

\* C8 (as claimed): a chunk on which the conversion fails is dropped, the
\* rolling window is unchanged and the loop goes on with the next chunks.
C8_MalformedChunkDropped ==
  rThrew => (rolling = rPre /\ rpc # "aborted")

\* C9 (as claimed): converting a chunk of odd byte length fails, returns no
\* samples and leaves the chunk as it was.
C9_OddLengthFails ==
  (cvOut.state # "none" /\ cvIn.length % 2 = 1) =>
    /\ cvOut.state = "threw"
    /\ cvOut.samples = <<>>
    /\ cvChunk = cvIn

\* C10 (as claimed): converting an even-length chunk, whatever ArrayBuffer,
\* offset and length it is a view of, returns length / 2 samples, sample i
\* being the 16-bit integer at byte offset 2i of the chunk divided by 32768.
C10_EvenLengthConverted ==
  (cvOut.state # "none" /\ cvIn.length % 2 = 0) =>
    /\ cvOut.state = "returned"
    /\ Len(cvOut.samples) = cvIn.length \div 2
    /\ \A i \in 1..Len(cvOut.samples) :
         /\ cvOut.samples[i] = ExpectedSample(cvIn, i)
         /\ RLe(Rat(-1), cvOut.samples[i])
         /\ RLe(cvOut.samples[i], Rat(1))

(***************************************************************************)
(* Properties of the detector.                                             *)
(***************************************************************************)
\* nTrailing = round(sampleRate * trailingWindowMs / 1000) of the call
NTrailing == (2 * vdIn.sampleRate * vdIn.lastMs + 1000) \div 2000

\* C11: vad_simple returns false whenever nTrailing >= nSamples, the case
\* nTrailing = nSamples and the empty window included, whatever the samples.
C11_InsufficientHistoryFalse ==
  (vdOut.state = "done" /\ NTrailing >= Len(vdIn.window)) => ~vdOut.r.ret

\* C12: vad_simple leaves the caller's window as it was, length and every
\* sample, with the filter on or off.
C12_WindowUntouched ==
  vdOut.state = "done" =>
    /\ Len(vdOut.r.pcmf32) = Len(vdIn.window)
    /\ \A i \in 1..Len(vdIn.window) : vdOut.r.pcmf32[i] = vdIn.window[i]

\* a call that filtered its working array, the filter having changed a sample
C12_Witness ==
  /\ vdOut.state = "done"
  /\ vdOut.r.computed
  /\ vdIn.freqThold > 0
  /\ vdOut.r.old # vdIn.window
  /\ vdOut.r.pcmf32 = vdIn.window

\* sum of |seq[i]| for i in lo..hi
RECURSIVE SumAbs(_, _, _)
SumAbs(seq, lo, hi) ==
  IF lo > hi THEN Rat(0)
  ELSE IF lo = hi THEN RAbs(seq[lo])
  ELSE RAdd(SumAbs(seq, lo, (lo + hi) \div 2),
            SumAbs(seq, (lo + hi) \div 2 + 1, hi))

\* mean absolute amplitude of seq[lo..hi]
MeanAbs(seq, lo, hi) == RDivInt(SumAbs(seq, lo, hi), hi - lo + 1)

\* a < b
RLt(a, b) == RLe(a, b) /\ a # b

\* the mean of the last nTrailing samples of the analysed array, and the
\* threshold times the mean of the whole array
TrailingMean ==
  MeanAbs(vdOut.r.old, Len(vdIn.window) - NTrailing + 1, Len(vdIn.window))
ThresholdBound ==
  RMul(vdIn.vadThold, MeanAbs(vdOut.r.old, 1, Len(vdIn.window)))

\* C13: with nTrailing < nSamples, vad_simple returns true when the trailing
\* mean equals threshold times the overall mean, and false when the trailing
\* mean is strictly greater.
C13_BoundaryIsSilence ==
  (vdOut.state = "done" /\ NTrailing < Len(vdIn.window)) =>
    /\ (TrailingMean = ThresholdBound) => vdOut.r.ret
    /\ RLt(ThresholdBound, TrailingMean) => ~vdOut.r.ret

\* a call on the boundary with a trailing mean that is not zero
C13_Witness ==
  /\ vdOut.state = "done"
  /\ NTrailing < Len(vdIn.window)
  /\ TrailingMean = ThresholdBound
  /\ RLt(Rat(0), TrailingMean)
  /\ vdOut.r.ret

\* C14: filter off, threshold 0.5, trailing window = last 2000 samples:
\* true on 5000 samples of 0.5 followed by 2000 of 0.01, false on 7000
\* samples of 0.5.
C14_SilentTailDetected ==
  (vdOut.state = "done" /\ vdIn \in VadLongInputs) =>
    /\ NTrailing = 2000
    /\ (vdIn.window = LoudThenSilent) => vdOut.r.ret
    /\ (vdIn.window = AllLoud) => ~vdOut.r.ret

\* the call on the window with the silent tail has returned true
C14_Witness ==
  /\ vdOut.state = "done"
  /\ vdIn.window = LoudThenSilent
  /\ vdIn.freqThold = 0
  /\ vdOut.r.computed
  /\ vdOut.r.ret

\* C15: whenever vad_simple computes the two means, both divisors nSamples
\* and nTrailing are positive.
C15_DivisorsPositive ==
  (vdOut.state = "done" /\ vdOut.r.computed) =>
    (vdOut.r.nSamples > 0 /\ vdOut.r.nSamplesLast > 0)

\* the recurrence on an untouched input x:
\*   y[0] = x[0]; y[i] = alpha * (y[i-1] + x[i] - x[i-1])
RECURSIVE Recurrence(_, _, _)
Recurrence(x, i, alpha) ==
  IF i = 1 THEN x[1]
  ELSE RMul(alpha, RSub(RAdd(Recurrence(x, i - 1, alpha), x[i]), x[i - 1]))

\* C16: the filter's in-place loop gives, on every input of length >= 3, the
\* output of the recurrence evaluated on an untouched copy of the input.
C16_FilterReadsUnfilteredInput ==
  (/\ vdOut.state = "done"
   /\ vdOut.r.computed
   /\ vdIn.freqThold > 0
   /\ Len(vdIn.window) >= 3) =>
    \A i \in 1..Len(vdIn.window) :
      vdOut.r.old[i] =
        Recurrence(vdIn.window, i,
                   FilterAlpha(vdIn.freqThold, vdIn.sampleRate))

(***************************************************************************)
(* Properties of the node-vad driven harness and of the replay loop.       *)
(***************************************************************************)
\* the bytes of a list of buffers, one after the other
RECURSIVE Flatten(_)
Flatten(bufs) == IF bufs = <<>> THEN <<>> ELSE Head(bufs) \o Flatten(Tail(bufs))

\* the samples of a run of 16-bit little-endian bytes
SamplesOf(bytes) ==
  [i \in 1..(Len(bytes) \div 2) |-> ExpectedSample(ExactBuffer(bytes), i)]

\* C17: every transcribe_get_object call is given exactly the audioData
\* buffers received since the previous call, in arrival order, each buffer in
\* one call only; the rolling buffer holds the buffers not yet transcribed
\* and is empty once an end-of-speech event has been handled.
C17_EachBufferTranscribedOnce ==
  /\ \A c \in DOMAIN hCalls :
       hCalls[c].arr = SamplesOf(Flatten(hCalls[c].heard))
  /\ ViewBytes(hRolling) = Flatten(hHeard)

\* C18: in the replay loop the engine is called for a chunk exactly when
\* vad_simple returns true on the rolling window with that chunk in it; the
\* rolling window is never shortened (it is the window before the chunk
\* followed by the chunk's samples), so a transcribe call receives all the
\* samples converted so far, those of earlier transcribe calls included.
C18_ReplayNeverResets ==
  /\ (rEngine.calls = 1) <=> (rVad.calls = 1 /\ rVad.ret)
  /\ IsPrefix(rPre, rolling)
  /\ (rVad.calls = 1) =>
       rolling = rPre \o SamplesOf(rChunk.store)
  /\ (rEngine.calls = 1) =>
       (rEngine.samples = rolling /\ IsPrefix(rEarlier, rEngine.samples))

\* a transcribe call on a window that holds the samples of an earlier
\* transcribe call and more
C18_Witness ==
  /\ rEngine.calls = 1
  /\ rEarlier # <<>>
  /\ Len(rEngine.samples) > Len(rEarlier)
  /\ IsPrefix(rEarlier, rEngine.samples)

====
